---------------------------- MODULE Spec2Model ----------------------------
(***************************************************************************)
(* Model of scripts/generate_improved_hazard_maps.py: the Perlin-like      *)
(* noise generator (PerlinNoise), the octave composition                   *)
(* (multi_octave_noise) and the grid walk of generate_hazard_map.          *)
(*                                                                         *)
(* Python floats are modelled as binary fixed-point numbers: the float v   *)
(* is the integer nearest to v * Unit, and every arithmetic operation      *)
(* rounds its exact result to the nearest representable value (ties to     *)
(* even), as IEEE-754 arithmetic does at its own precision.                *)
(***************************************************************************)
EXTENDS Integers, Sequences, FiniteSets, TLC

(***************************************************************************)
(* Float arithmetic                                                        *)
(***************************************************************************)

\* One split limb of a float; a float carries two limbs below the point.
Limb == 1024

\* The integer that represents the float 1.0.
Unit == Limb * Limb

Abs(n) == IF n < 0 THEN -n ELSE n

Sign(n) == IF n < 0 THEN -1 ELSE 1

\* q + r / d for 0 <= r < d, rounded to the nearest integer, ties to even.
RoundUp(q, r, d) == IF 2 * r > d \/ (2 * r = d /\ q % 2 = 1) THEN q + 1 ELSE q

\* n / d for n >= 0, d > 0, rounded to the nearest integer, ties to even.
RoundDiv(n, d) == RoundUp(n \div d, n % d, d)

\* n / d as a float, for n >= 0.
DecAbs(n, d) == (n \div d) * Unit + RoundDiv((n % d) * Unit, d)

\* The float written as the decimal literal n / d (d a power of ten).
Dec(n, d) == Sign(n) * DecAbs(Abs(n), d)

\* The float of an integer.
FromInt(n) == n * Unit

\* a * b on floats: the exact product of the limbs, then one rounding.
MulRound(hi, lo) == RoundUp(hi + (lo \div Unit), lo % Unit, Unit)

MulSum(hh, mid, ll) == MulRound(hh + (mid \div Limb), (mid % Limb) * Limb + ll)

MulLimbs(a1, a0, b1, b0) == MulSum(a1 * b1, a1 * b0 + a0 * b1, a0 * b0)

MulAbs(m, n) == MulLimbs(m \div Limb, m % Limb, n \div Limb, n % Limb)

FMul(a, b) == Sign(a) * Sign(b) * MulAbs(Abs(a), Abs(b))

RECURSIVE DivStep(_, _, _, _)
\* Long division: k more digits (base 32) of the quotient, after quotient q
\* and remainder r; then one rounding.
DivStep(q, r, b, k) ==
  IF k = 0 THEN RoundUp(q, r, b)
  ELSE DivStep(q * 32 + ((r * 32) \div b), (r * 32) % b, b, k - 1)

DivAbs(m, b) == DivStep(m \div b, m % b, b, 4)

\* a / b on floats, b > 0.
FDiv(a, b) == Sign(a) * DivAbs(Abs(a), b)

\* math.floor(x), as an integer.
Floor(x) == x \div Unit

\* |x| in units of 1/scale, rounded to the nearest integer, ties to even.
Scaled(m, scale) == (m \div Unit) * scale + RoundDiv((m % Unit) * scale, Unit)

\* round(x, ndigits) with scale = 10^ndigits: the float nearest to the
\* nearest multiple of 1/scale.
Round(x, scale) == Sign(x) * DecAbs(Scaled(Abs(x), scale), scale)

(***************************************************************************)
(* The process-wide random stream (module random)                          *)
(***************************************************************************)

\* A 16-bit linear congruential generator stands for the Mersenne Twister:
\* a deterministic stream whose whole state is one value.
LcgA == 25173
LcgC == 13849
LcgM == 65536

\* random.seed(seed)
SeedState(seed) == seed % LcgM

\* The stream state after one draw.
Advance(s) == (LcgA * s + LcgC) % LcgM

\* random.random() read off the state after the draw: a float in [0, 1).
RandomOf(s) == s * (Unit \div LcgM)

\* randbelow(n) read off the state after the draw: an integer in 0..n-1.
RandBelowOf(s, n) == (s * n) \div LcgM

\* random.uniform(a, b) read off the state after the draw.
UniformOf(s, a, b) == a + FMul(b - a, RandomOf(s))

(***************************************************************************)
(* class PerlinNoise                                                       *)
(***************************************************************************)

\* list(range(256))
TableSize == 256

\* One iteration of random.shuffle's loop: j = randbelow(i + 1), then
\* x[i], x[j] = x[j], x[i].  st holds the list and the stream state.
\* Faulty variant: the swap writes x[j] to x[i] and loses the old x[i].
SwapOverwrite(x, i, j) == [x EXCEPT ![i] = x[j]]

Swap(x, i, j) == [x EXCEPT ![i] = x[j], ![j] = x[i]]

SwapDraw(x, i, s1) == [list |-> Swap(x, i, RandBelowOf(s1, i + 1)), rng |-> s1]

SwapStep(st, i) == SwapDraw(st.list, i, Advance(st.rng))

RECURSIVE ShuffleRange(_, _, _), ShuffleLower(_, _, _)
\* The iterations i = hi, hi - 1, ..., lo of the loop, in that order.  (The
\* test on upper.rng, which is never negative, only makes the first half be
\* evaluated before the second is entered.)
ShuffleRange(st, hi, lo) ==
  IF hi < lo THEN st
  ELSE IF hi = lo THEN SwapStep(st, hi)
  ELSE ShuffleLower(ShuffleRange(st, hi, (hi + lo) \div 2 + 1), (hi + lo) \div 2, lo)

ShuffleLower(upper, mid, lo) ==
  IF upper.rng >= 0 THEN ShuffleRange(upper, mid, lo) ELSE upper

\* random.shuffle(x) for a list of n items on stream state s:
\* for i in reversed(range(1, n)).
Shuffle(x, n, s) == ShuffleRange([list |-> x, rng |-> s], n - 1, 1)

\* Faulty variant: the table is not doubled.
DuplicateNone(x, n) == x

\* self.permutation *= 2
Duplicate(x, n) == [i \in 0..(2 * n - 1) |-> x[i % n]]

\* PerlinNoise.__init__ on stream state s (already reseeded when a seed was
\* given): the permutation table and the stream state it leaves.
Table(sh, n) == [permutation |-> Duplicate(sh.list, n), rng |-> sh.rng]

NewPerlin(s) == Table(Shuffle([i \in 0..(TableSize - 1) |-> i], TableSize, s), TableSize)

\* self.permutation[i], with Python's list indexing: a negative index counts
\* from the end, and an index outside the list raises IndexError.
IndexError == -100000

Length(p) == Cardinality(DOMAIN p)

InRange(p, i) == i >= -Length(p) /\ i < Length(p)

GetItem(p, i) ==
  IF ~InRange(p, i) THEN IndexError
  ELSE IF i >= 0 THEN p[i] ELSE p[i + Length(p)]

\* PerlinNoise.fade
fade(t) ==
  FMul(FMul(FMul(t, t), t), FMul(t, FMul(t, FromInt(6)) - FromInt(15)) + FromInt(10))

\* PerlinNoise.lerp
lerp(t, a, b) == a + FMul(t, b - a)

\* PerlinNoise.grad, for h = hash_val & 3
GradOf(h, u, v) ==
  (IF h % 2 = 0 THEN u ELSE -u) + (IF (h \div 2) % 2 = 0 THEN v ELSE -v)

GradUV(h, x, y) == GradOf(h, IF h < 2 THEN x ELSE y, IF h < 2 THEN y ELSE x)

grad(hash_val, x, y) == GradUV(hash_val % 4, x, y)

\* n & 255
MaskCell(n) == n % 256

\* int(math.floor(x)) & 255
CellIndex(x) == MaskCell(Floor(x))

\* The table index of the hash of the corner (xi + dx, yi + dy) of the cell
\* (xi, yi): self.permutation[xi + dx] + yi + dy.
CornerIndex(p, xi, yi, dx, dy) == GetItem(p, xi + dx) + yi + dy

\* The hash of that corner: self.permutation[self.permutation[xi+dx] + yi+dy].
CornerHash(p, xi, yi, dx, dy) == GetItem(p, CornerIndex(p, xi, yi, dx, dy))

\* Every table index one evaluation of noise uses in the cell (xi, yi).
CellCornerIndices(p, xi, yi) ==
  {xi, xi + 1} \cup {CornerIndex(p, xi, yi, dx, dy) : dx \in {0, 1}, dy \in {0, 1}}

NoiseIndices(p, x, y) == CellCornerIndices(p, CellIndex(x), CellIndex(y))

\* The blend of the four corner gradients: x1, x2, then lerp(v, x1, x2).
Blend(u, v, gaa, gba, gab, gbb) == lerp(v, lerp(u, gaa, gba), lerp(u, gab, gbb))

\* noise in the cell (xi, yi) at the offset (xf, yf).
NoiseAt(p, xi, yi, xf, yf) ==
  Blend(fade(xf), fade(yf),
        grad(CornerHash(p, xi, yi, 0, 0), xf, yf),
        grad(CornerHash(p, xi, yi, 1, 0), xf - Unit, yf),
        grad(CornerHash(p, xi, yi, 0, 1), xf, yf - Unit),
        grad(CornerHash(p, xi, yi, 1, 1), xf - Unit, yf - Unit))

\* PerlinNoise.noise
noise(p, x, y) ==
  NoiseAt(p, CellIndex(x), CellIndex(y), x - FromInt(Floor(x)), y - FromInt(Floor(y)))

(***************************************************************************)
(* multi_octave_noise                                                      *)
(***************************************************************************)

RECURSIVE OctaveLoop(_, _, _, _, _, _, _)
\* The for loop with k octaves left; st holds the locals total, frequency,
\* amplitude and max_value.
OctaveLoop(p, x, y, k, persistence, lacunarity, st) ==
  IF k = 0 THEN st
  ELSE OctaveLoop(p, x, y, k - 1, persistence, lacunarity,
         [total     |-> st.total + FMul(noise(p, FMul(x, st.frequency), FMul(y, st.frequency)),
                                        st.amplitude),
          max_value |-> st.max_value + st.amplitude,
          amplitude |-> FMul(st.amplitude, persistence),
          frequency |-> FMul(st.frequency, lacunarity)])

\* return total / max_value
OctaveResult(st) == FDiv(st.total, st.max_value)

multi_octave_noise(p, x, y, octaves, persistence, lacunarity) ==
  OctaveResult(OctaveLoop(p, x, y, octaves, persistence, lacunarity,
                          [total |-> 0, frequency |-> Unit, amplitude |-> Unit, max_value |-> 0]))

\* The coordinates at which multi_octave_noise(p, x, y, octaves, ...) samples
\* the noise: (x * frequency, y * frequency) for each octave.
RECURSIVE OctaveCoords(_, _, _, _, _)
OctaveCoords(x, y, k, lacunarity, frequency) ==
  IF k = 0 THEN {}
  ELSE {<<FMul(x, frequency), FMul(y, frequency)>>}
       \cup OctaveCoords(x, y, k - 1, lacunarity, FMul(frequency, lacunarity))

(***************************************************************************)
(* generate_hazard_map: the per-cell computation                           *)
(***************************************************************************)

\* An optional seed: NoSeed is None, <<n>> is the integer n.
NoSeed == <<>>

\* Faulty variant: the seed is ignored, the stream is never reseeded.
PerlinNoiseUnseeded(seed, s) == NewPerlin(s)

\* PerlinNoise(seed) on stream state s: reseed the stream when a seed is
\* given, then shuffle.
PerlinNoise(seed, s) == NewPerlin(IF seed = NoSeed THEN s ELSE SeedState(seed[1]))

\* The noise-space coordinate of a longitude or latitude at each scale.
LargeCoord(c)  == FMul(c, Dec(5, 100))
MediumCoord(c) == FMul(c, Dec(15, 100))
SmallCoord(c)  == FMul(c, Dec(5, 10))

large_scale(p, lat, lon) ==
  multi_octave_noise(p, LargeCoord(lon), LargeCoord(lat), 3, Dec(6, 10), Dec(20, 10))

medium_scale(p, lat, lon) ==
  multi_octave_noise(p, MediumCoord(lon), MediumCoord(lat), 3, Dec(5, 10), Dec(20, 10))

small_scale(p, lat, lon) ==
  multi_octave_noise(p, SmallCoord(lon), SmallCoord(lat), 2, Dec(4, 10), Dec(20, 10))

\* combined = large_scale * 0.6 + medium_scale * 0.3 + small_scale * 0.1
Combine(large, medium, small) ==
  FMul(large, Dec(6, 10)) + FMul(medium, Dec(3, 10)) + FMul(small, Dec(1, 10))

\* Faulty variant: the halving is forgotten.
NormalizeNoHalf(combined) == combined + Dec(10, 10)

\* base_value = (combined + 1.0) / 2.0
Normalize(combined) == FDiv(combined + Dec(10, 10), Dec(20, 10))

\* The noise samples one grid cell takes from each generator.
LargeSamples(lat, lon)  == OctaveCoords(LargeCoord(lon), LargeCoord(lat), 3, Dec(20, 10), Unit)
MediumSamples(lat, lon) == OctaveCoords(MediumCoord(lon), MediumCoord(lat), 3, Dec(20, 10), Unit)
SmallSamples(lat, lon)  == OctaveCoords(SmallCoord(lon), SmallCoord(lat), 2, Dec(20, 10), Unit)

\* Every table index the three generators use for one grid cell.
CellIndices(pl, pm, ps, lat, lon) ==
  UNION ({NoiseIndices(pl, c[1], c[2]) : c \in LargeSamples(lat, lon)}
         \cup {NoiseIndices(pm, c[1], c[2]) : c \in MediumSamples(lat, lon)}
         \cup {NoiseIndices(ps, c[1], c[2]) : c \in SmallSamples(lat, lon)})

\* The six jitter multipliers, each read off the stream state after its draw.
Jitter1(s)    == UniformOf(s, Dec(9, 10), Dec(11, 10))
\* Faulty variant: the period-2 multiplier is drawn from the variance range.
Jitter2Low(s) == UniformOf(s, Dec(15, 100), Dec(25, 100))

Jitter2(s)    == UniformOf(s, Dec(115, 100), Dec(125, 100))
Jitter3(s)    == UniformOf(s, Dec(12, 10), Dec(135, 100))
VarJitter1(s) == UniformOf(s, Dec(15, 100), Dec(25, 100))
VarJitter2(s) == UniformOf(s, Dec(15, 100), Dec(25, 100))
VarJitter3(s) == UniformOf(s, Dec(2, 10), Dec(3, 10))

\* The locals of one loop iteration, built up in the order of the code; s1 to
\* s6 are the stream states after each of the six draws.
WithVariances(c, s4, s5, s6) ==
  [lat |-> c.lat, lon |-> c.lon,
   large_scale |-> c.large_scale, medium_scale |-> c.medium_scale,
   small_scale |-> c.small_scale, combined |-> c.combined, base_value |-> c.base_value,
   period_1_intensity |-> c.period_1_intensity,
   period_2_intensity |-> c.period_2_intensity,
   period_3_intensity |-> c.period_3_intensity,
   period_1_variance |-> FMul(c.period_1_intensity, VarJitter1(s4)),
   period_2_variance |-> FMul(c.period_2_intensity, VarJitter2(s5)),
   period_3_variance |-> FMul(c.period_3_intensity, VarJitter3(s6)),
   rng |-> s6]

Period3(c, s3) == [c EXCEPT !.period_3_intensity = FMul(c.period_2_intensity, Jitter3(s3))]

Period2(c, s2) == [c EXCEPT !.period_2_intensity = FMul(c.period_1_intensity, Jitter2(s2))]

Period1(c, base_intensity, s1) ==
  [c EXCEPT !.period_1_intensity = FMul(FMul(base_intensity, c.base_value), Jitter1(s1))]

WithBase(lat, lon, large, medium, small, combined) ==
  [lat |-> lat, lon |-> lon,
   large_scale |-> large, medium_scale |-> medium, small_scale |-> small,
   combined |-> combined, base_value |-> Normalize(combined),
   period_1_intensity |-> 0, period_2_intensity |-> 0, period_3_intensity |-> 0]

WithCombined(lat, lon, large, medium, small) ==
  WithBase(lat, lon, large, medium, small, Combine(large, medium, small))

\* The noise part of an iteration (lines 135-165).
NoiseLocals(pl, pm, ps, lat, lon) ==
  WithCombined(lat, lon, large_scale(pl, lat, lon), medium_scale(pm, lat, lon),
               small_scale(ps, lat, lon))

WithDraws(c, base_intensity, s1, s2, s3, s4, s5, s6) ==
  WithVariances(Period3(Period2(Period1(c, base_intensity, s1), s2), s3), s4, s5, s6)

Draws3(c, base_intensity, s1, s2, s3) ==
  WithDraws(c, base_intensity, s1, s2, s3,
            Advance(s3), Advance(Advance(s3)), Advance(Advance(Advance(s3))))

CellLocals(pl, pm, ps, base_intensity, lat, lon, s) ==
  Draws3(NoiseLocals(pl, pm, ps, lat, lon), base_intensity,
         Advance(s), Advance(Advance(s)), Advance(Advance(Advance(s))))

\* Strings the code takes apart are sequences of characters.
LowerCase == <<"a", "b", "c", "d", "e", "f", "g", "h", "i", "j", "k", "l", "m",
               "n", "o", "p", "q", "r", "s", "t", "u", "v", "w", "x", "y", "z">>
UpperCase == <<"A", "B", "C", "D", "E", "F", "G", "H", "I", "J", "K", "L", "M",
               "N", "O", "P", "Q", "R", "S", "T", "U", "V", "W", "X", "Y", "Z">>
DigitChar == <<"0", "1", "2", "3", "4", "5", "6", "7", "8", "9">>

\* str.upper(), character by character.
Upper(str) ==
  [i \in 1..Len(str) |->
     IF \E k \in 1..26 : LowerCase[k] = str[i]
     THEN UpperCase[CHOOSE k \in 1..26 : LowerCase[k] = str[i]]
     ELSE str[i]]

\* hazard_type.upper()[:4]
Take(str, n) == SubSeq(str, 1, IF Len(str) < n THEN Len(str) ELSE n)

hazard_prefix(hazard_type) == Take(Upper(hazard_type), 4)

RECURSIVE DigitsOf(_)
\* The decimal digits of n >= 0.
DigitsOf(n) ==
  IF n < 10 THEN <<DigitChar[n + 1]>>
  ELSE Append(DigitsOf(n \div 10), DigitChar[(n % 10) + 1])

RECURSIVE ZeroPad(_, _)
ZeroPad(str, width) == IF Len(str) >= width THEN str ELSE ZeroPad(<<"0">> \o str, width)

\* f"{location_id:06d}"
Format06d(n) == ZeroPad(DigitsOf(n), 6)

\* f"EUR_{hazard_prefix}_{location_id:06d}"
location_name(hazard_type, n) ==
  <<"E", "U", "R", "_">> \o hazard_prefix(hazard_type) \o <<"_">> \o Format06d(n)

\* Faulty variant: the counter is not incremented.
NextLocationIdStuck(n) == n

\* location_id += 1
NextLocationId(n) == n + 1

\* The record appended to rows.
Row(a, n, c) ==
  [location_id          |-> location_name(a.hazard_type, n),
   latitude             |-> Round(c.lat, 100),
   longitude            |-> Round(c.lon, 100),
   period_1_intensity_m |-> Round(c.period_1_intensity, 1000),
   period_1_variance    |-> Round(c.period_1_variance, 1000),
   period_2_intensity_m |-> Round(c.period_2_intensity, 1000),
   period_2_variance    |-> Round(c.period_2_variance, 1000),
   period_3_intensity_m |-> Round(c.period_3_intensity, 1000),
   period_3_variance    |-> Round(c.period_3_variance, 1000),
   hazard_type          |-> a.hazard_type,
   unit                 |-> a.unit]

\* Faulty variant: the loop tests exclude the maximum.
InBoundsStrict(c, max) == c < max

\* The loop tests: while lat <= lat_max, while lon <= lon_max.
InBounds(c, max) == c <= max

\* lon = round(lon + grid_spacing, 2); lat = round(lat + grid_spacing, 2)
StepCoord(c, grid_spacing) == Round(c + grid_spacing, 100)

\* Whether the cell's noise evaluations raise IndexError.
CellRaises(pl, pm, ps, lat, lon) ==
  \/ \E c \in LargeSamples(lat, lon)  : \E i \in NoiseIndices(pl, c[1], c[2]) : ~InRange(pl, i)
  \/ \E c \in MediumSamples(lat, lon) : \E i \in NoiseIndices(pm, c[1], c[2]) : ~InRange(pm, i)
  \/ \E c \in SmallSamples(lat, lon)  : \E i \in NoiseIndices(ps, c[1], c[2]) : ~InRange(ps, i)

(***************************************************************************)
(* The calls of generate_hazard_map                                        *)
(***************************************************************************)

\* Calls of generate_hazard_map per process.
MaxCalls == 2

\* Rows one call may append (the grid walk itself has no such limit).
MaxRows == 20

\* Stream states the process may start in (the stream is seeded from system
\* entropy at import).
StartStreams == {1, 40503}

Flood == <<"f", "l", "o", "o", "d">>
Wind  == <<"w", "i", "n", "d">>

\* Bounding boxes (hundredths of a degree) and grid spacings (thousandths).
Box(lat_min, lat_max, lon_min, lon_max) ==
  [lat_min |-> Dec(lat_min, 100), lat_max |-> Dec(lat_max, 100),
   lon_min |-> Dec(lon_min, 100), lon_max |-> Dec(lon_max, 100)]

ExampleBox  == Box(3500, 3518, -1000, -982)
InvertedBox == Box(3518, 3500, -1000, -982)
EuropeBox   == Box(3500, 7100, -1000, 4000)
OriginBox   == Box(-5, 5, 0, 3)

Grids ==
  { [box |-> ExampleBox,  grid_spacing |-> Dec(90, 1000)],
    [box |-> ExampleBox,  grid_spacing |-> Dec(4, 1000)],
    [box |-> ExampleBox,  grid_spacing |-> Dec(0, 1000)],
    [box |-> InvertedBox, grid_spacing |-> Dec(90, 1000)],
    [box |-> EuropeBox,   grid_spacing |-> Dec(12000, 1000)],
    [box |-> OriginBox,   grid_spacing |-> Dec(20, 1000)] }

\* The two hazards of main and an unseeded call; wind is seeded so that its
\* first generator shares a seed with flood's second (42 + 1).
Hazards ==
  { [hazard_type |-> Flood, unit |-> "meters", base_intensity |-> Dec(30, 10), seed |-> <<42>>],
    [hazard_type |-> Wind,  unit |-> "m/s",    base_intensity |-> Dec(250, 10), seed |-> <<43>>],
    [hazard_type |-> Flood, unit |-> "meters", base_intensity |-> Dec(30, 10), seed |-> NoSeed] }

\* The argument lists generate_hazard_map is called with.
CallArgs ==
  { [hazard_type |-> h.hazard_type, unit |-> h.unit,
     lat_min |-> g.box.lat_min, lat_max |-> g.box.lat_max,
     lon_min |-> g.box.lon_min, lon_max |-> g.box.lon_max,
     grid_spacing |-> g.grid_spacing, base_intensity |-> h.base_intensity,
     seed |-> h.seed] : g \in Grids, h \in Hazards }

VARIABLES
  pc,             \* where the process is: "idle", "outer", "inner", "write", "IndexError"
  calls,          \* calls of generate_hazard_map begun so far
  args,           \* the arguments of the current call
  rng,            \* the state of the process-wide random stream
  perlin_large,   \* permutation table of perlin_large
  perlin_medium,  \* permutation table of perlin_medium
  perlin_small,   \* permutation table of perlin_small
  rows,           \* rows
  location_id,    \* location_id
  lat,            \* lat
  lon,            \* lon
  cell,           \* the locals of the last loop iteration (<<>> before the first)
  written,        \* the rows handed to the CSV writer by the last finished call
  built,          \* history: every seeded construction, with the stream state it found
  samples         \* history: every base_value computed under a seed

vars == <<pc, calls, args, rng, perlin_large, perlin_medium, perlin_small,
          rows, location_id, lat, lon, cell, written, built, samples>>

Init ==
  /\ pc = "idle"
  /\ calls = 0
  /\ args = <<>>
  /\ rng \in StartStreams
  /\ perlin_large = <<>>
  /\ perlin_medium = <<>>
  /\ perlin_small = <<>>
  /\ rows = <<>>
  /\ location_id = 0
  /\ lat = 0
  /\ lon = 0
  /\ cell = <<>>
  /\ written = <<>>
  /\ built = {}
  /\ samples = {}

\* The seed of the k-th generator (k = 0, 1, 2): seed + k, or None.
SeedPlus(seed, k) == IF seed = NoSeed THEN NoSeed ELSE <<seed[1] + k>>

\* Lines 111-129: the three generators are constructed in order on the
\* shared stream; rows, location_id and lat are initialised.
Constructed(a, pl, pm, ps) ==
  /\ perlin_large' = pl.permutation
  /\ perlin_medium' = pm.permutation
  /\ perlin_small' = ps.permutation
  /\ rng' = ps.rng
  /\ built' = IF a.seed = NoSeed THEN built
              ELSE built \cup
                   { [seed |-> a.seed[1],     prior |-> rng,    permutation |-> pl.permutation],
                     [seed |-> a.seed[1] + 1, prior |-> pl.rng, permutation |-> pm.permutation],
                     [seed |-> a.seed[1] + 2, prior |-> pm.rng, permutation |-> ps.permutation] }

ConstructSmall(a, pl, pm) ==
  Constructed(a, pl, pm, PerlinNoise(SeedPlus(a.seed, 2), pm.rng))

ConstructMedium(a, pl) ==
  ConstructSmall(a, pl, PerlinNoise(SeedPlus(a.seed, 1), pl.rng))

Call(a) ==
  /\ pc = "idle"
  /\ calls < MaxCalls
  /\ ConstructMedium(a, PerlinNoise(SeedPlus(a.seed, 0), rng))
  /\ args' = a
  /\ calls' = calls + 1
  /\ rows' = <<>>
  /\ location_id' = 1
  /\ lat' = a.lat_min
  /\ cell' = <<>>
  /\ pc' = "outer"
  /\ UNCHANGED <<lon, written, samples>>

\* Line 130-131: the outer loop test; lon = lon_min on entry to the body.
OuterTest ==
  /\ pc = "outer"
  /\ IF InBounds(lat, args.lat_max)
     THEN lon' = args.lon_min /\ pc' = "inner"
     ELSE lon' = lon /\ pc' = "write"
  /\ UNCHANGED <<calls, args, rng, perlin_large, perlin_medium, perlin_small,
                 rows, location_id, lat, cell, written, built, samples>>

\* Lines 132-196: one iteration of the inner loop.
Iterate(c) ==
  /\ rows' = Append(rows, Row(args, location_id, c))
  /\ location_id' = NextLocationId(location_id)
  /\ lon' = StepCoord(lon, args.grid_spacing)
  /\ rng' = c.rng
  /\ cell' = <<c>>
  /\ samples' = IF args.seed = NoSeed THEN samples
                ELSE samples \cup { [seed |-> args.seed[1], lat |-> lat, lon |-> lon,
                                     call |-> calls, base_value |-> c.base_value] }
  /\ pc' = "inner"

Cell ==
  /\ pc = "inner"
  /\ InBounds(lon, args.lon_max)
  /\ Len(rows) < MaxRows
  /\ IF CellRaises(perlin_large, perlin_medium, perlin_small, lat, lon)
     THEN /\ pc' = "IndexError"
          /\ UNCHANGED <<rng, rows, location_id, lon, cell, samples>>
     ELSE Iterate(CellLocals(perlin_large, perlin_medium, perlin_small,
                             args.base_intensity, lat, lon, rng))
  /\ UNCHANGED <<calls, args, perlin_large, perlin_medium, perlin_small, lat, written, built>>

\* Lines 132, 198: the inner loop ends; lat = round(lat + grid_spacing, 2).
InnerExit ==
  /\ pc = "inner"
  /\ ~InBounds(lon, args.lon_max)
  /\ lat' = StepCoord(lat, args.grid_spacing)
  /\ pc' = "outer"
  /\ UNCHANGED <<calls, args, rng, perlin_large, perlin_medium, perlin_small,
                 rows, location_id, lon, cell, written, built, samples>>

\* Lines 200-215: the rows go to the CSV writer and the call returns.
Write ==
  /\ pc = "write"
  /\ written' = rows
  /\ pc' = "idle"
  /\ UNCHANGED <<calls, args, rng, perlin_large, perlin_medium, perlin_small,
                 rows, location_id, lat, lon, cell, built, samples>>

Next ==
  \/ \E a \in CallArgs : Call(a)
  \/ OuterTest
  \/ Cell
  \/ InnerExit
  \/ Write

Spec == Init /\ [][Next]_vars

(***************************************************************************)
(* Properties                                                              *)
(***************************************************************************)

\* x in hundredths, rounded to the nearest integer.
Hundredths(x) == Sign(x) * Scaled(Abs(x), 100)

\* x is the float of a whole multiple of 0.01.
IsHundredth(x) == Dec(Hundredths(x), 100) = x

\* floor((max - min) / spacing) + 1, in exact arithmetic on hundredths.
GridSteps(min, max, spacing) ==
  ((Hundredths(max) - Hundredths(min)) \div Hundredths(spacing)) + 1

\* Bounds and spacing are whole multiples of 0.01, min <= max, spacing >= 0.01.
RegularGrid(a) ==
  /\ IsHundredth(a.lat_min) /\ IsHundredth(a.lat_max)
  /\ IsHundredth(a.lon_min) /\ IsHundredth(a.lon_max)
  /\ IsHundredth(a.grid_spacing)
  /\ a.lat_min <= a.lat_max
  /\ a.lon_min <= a.lon_max
  /\ a.grid_spacing >= Dec(1, 100)

IsExampleGrid(a) ==
  /\ a.lat_min = ExampleBox.lat_min /\ a.lat_max = ExampleBox.lat_max
  /\ a.lon_min = ExampleBox.lon_min /\ a.lon_max = ExampleBox.lon_max
  /\ a.grid_spacing = Dec(9, 100)

\* C1: when the grid walk of a call whose bounds and spacing are whole
\* multiples of 0.01 (min <= max, spacing >= 0.01) has ended, rows holds
\* (floor((lat_max-lat_min)/spacing)+1) * (floor((lon_max-lon_min)/spacing)+1)
\* records; over lat [35.0, 35.18] x lon [-10.0, -9.82] at spacing 0.09 that
\* is 9 records.
C1_GridCardinality ==
  (pc = "write" /\ RegularGrid(args)) =>
     /\ Len(rows) = GridSteps(args.lat_min, args.lat_max, args.grid_spacing)
                    * GridSteps(args.lon_min, args.lon_max, args.grid_spacing)
     /\ IsExampleGrid(args) => Len(rows) = 9

\* A finished walk of the 3 x 3 example grid.
C1_Witness == pc = "write" /\ IsExampleGrid(args) /\ Len(rows) = 9

\* The value of a decimal digit character.
DigitValue(ch) == (CHOOSE k \in 1..10 : DigitChar[k] = ch) - 1

RECURSIVE NumberOf(_)
\* The number a string of decimal digits denotes.
NumberOf(str) ==
  IF str = <<>> THEN 0
  ELSE NumberOf(SubSeq(str, 1, Len(str) - 1)) * 10 + DigitValue(str[Len(str)])

\* The numeric suffix of a location_id: what follows its last underscore.
NumericSuffix(name) ==
  NumberOf(SubSeq(name,
                  (CHOOSE i \in 1..Len(name) :
                     name[i] = "_" /\ \A j \in (i + 1)..Len(name) : name[j] # "_") + 1,
                  Len(name)))

\* C2: within one call the k-th record carries the counter k as the numeric
\* suffix of its location_id, so the location_ids produced so far are pairwise
\* distinct and strictly increasing in generation order.
C2_SequentialIds ==
  /\ \A k \in 1..Len(rows) : NumericSuffix(rows[k].location_id) = k
  /\ \A i, j \in 1..Len(rows) : i # j => rows[i].location_id # rows[j].location_id

\* Several records have been appended in the current call.
C2_Witness == pc = "inner" /\ Len(rows) >= 3

\* C3: for base_intensity >= 0 and a blended value in [0, 1], the three period
\* intensities of a record satisfy period_1 <= period_2 <= period_3, before
\* rounding (the locals) and after rounding to 3 decimals (the row).
C3_TrendMonotone ==
  (cell # <<>> /\ args.base_intensity >= 0
     /\ cell[1].base_value >= 0 /\ cell[1].base_value <= Unit) =>
     /\ cell[1].period_1_intensity <= cell[1].period_2_intensity
     /\ cell[1].period_2_intensity <= cell[1].period_3_intensity
     /\ rows[Len(rows)].period_1_intensity_m <= rows[Len(rows)].period_2_intensity_m
     /\ rows[Len(rows)].period_2_intensity_m <= rows[Len(rows)].period_3_intensity_m

\* A record with a positive, strictly escalating trend.
C3_Witness ==
  /\ cell # <<>>
  /\ cell[1].period_1_intensity > 0
  /\ rows[Len(rows)].period_1_intensity_m < rows[Len(rows)].period_2_intensity_m
  /\ rows[Len(rows)].period_2_intensity_m < rows[Len(rows)].period_3_intensity_m

InUnitBall(v) == v >= -Unit /\ v <= Unit

\* C4: for every grid cell the blended base_value lies in [0, 1], each
\* multi_octave_noise result lies in [-1, 1], and so does every noise sample
\* the cell takes.
C4_BlendedRange ==
  cell # <<>> =>
     /\ cell[1].base_value >= 0 /\ cell[1].base_value <= Unit
     /\ InUnitBall(cell[1].large_scale)
     /\ InUnitBall(cell[1].medium_scale)
     /\ InUnitBall(cell[1].small_scale)
     /\ \A c \in LargeSamples(cell[1].lat, cell[1].lon) :
          InUnitBall(noise(perlin_large, c[1], c[2]))
     /\ \A c \in MediumSamples(cell[1].lat, cell[1].lon) :
          InUnitBall(noise(perlin_medium, c[1], c[2]))
     /\ \A c \in SmallSamples(cell[1].lat, cell[1].lon) :
          InUnitBall(noise(perlin_small, c[1], c[2]))

\* A cell whose blend is strictly inside (0, 1) with all three scales non-zero.
C4_Witness ==
  /\ cell # <<>>
  /\ cell[1].base_value > 0 /\ cell[1].base_value < Unit
  /\ cell[1].large_scale # 0 /\ cell[1].medium_scale # 0 /\ cell[1].small_scale # 0

\* C5 (as claimed): a call with min > max on an axis, or with spacing <= 0,
\* fails before the grid walk begins, so the walk is only ever entered with
\* valid arguments.
C5_EagerValidation ==
  pc \in {"outer", "inner", "write"} =>
     /\ args.lat_min <= args.lat_max
     /\ args.lon_min <= args.lon_max
     /\ args.grid_spacing > 0

\* The table has 512 entries, the first 256 are a permutation of 0..255, and
\* entry i + 256 equals entry i.
TableOK(p) ==
  /\ DOMAIN p = 0..(2 * TableSize - 1)
  /\ {p[i] : i \in 0..(TableSize - 1)} = 0..(TableSize - 1)
  /\ \A i \in 0..(TableSize - 1) : p[i + TableSize] = p[i]

TablesOK == TableOK(perlin_large) /\ TableOK(perlin_medium) /\ TableOK(perlin_small)

\* C6: once constructed, each permutation table has length 512, its first 256
\* entries are a permutation of 0..255 and entry i+256 equals entry i; and no
\* step of the grid walk (no call of noise or multi_octave_noise) changes a
\* table.
C6_TableInvariant ==
  /\ [](calls > 0 => TablesOK)
  /\ [][pc # "idle" => UNCHANGED <<perlin_large, perlin_medium, perlin_small>>]_vars

\* A finished walk that evaluated the noise for several cells.
C6_Witness == pc = "write" /\ Len(rows) >= 9 /\ TablesOK

\* C7: every construction with the same seed builds the same table, whatever
\* the stream state it found, and every evaluation under the same seed at the
\* same coordinate gives the same base_value, whatever happened in between.
C7_SeedDeterminism ==
  /\ \A a, b \in built : a.seed = b.seed => a.permutation = b.permutation
  /\ \A a, b \in samples :
       (a.seed = b.seed /\ a.lat = b.lat /\ a.lon = b.lon) => a.base_value = b.base_value

\* One seed was used on two different stream states, and one coordinate was
\* evaluated under one seed in two different calls.
C7_Witness ==
  /\ \E a, b \in built : a.seed = b.seed /\ a.prior # b.prior
  /\ \E a, b \in samples :
       a.seed = b.seed /\ a.lat = b.lat /\ a.lon = b.lon /\ a.call # b.call

\* Offsets at which the gradient directions are probed.
GradProbes == {<<Dec(25, 100), Dec(5, 10)>>, <<Dec(-75, 100), Dec(5, 10)>>,
               <<Dec(25, 100), Dec(-5, 10)>>, <<Dec(-75, 100), Dec(-25, 100)>>}

\* The values of hash & 3 whose gradient is sx * x + sy * y, among the hashes
\* stored in table p.
DirectionBits(p, sx, sy) ==
  { b \in 0..3 : \A i \in 0..(TableSize - 1) :
      (p[i] % 4 = b) => \A o \in GradProbes : grad(p[i], o[1], o[2]) = sx * o[1] + sy * o[2] }

\* C8 (as claimed): each of the four sign combinations +x+y, -x+y, +x-y, -x-y
\* is the gradient of exactly one value of hash & 3.
C8_FourDirections ==
  calls > 0 =>
     \A sx, sy \in {1, -1} : Cardinality(DirectionBits(perlin_large, sx, sy)) = 1

\* C9 (as claimed): for spacing > 0 each increment-and-round step strictly
\* increases the coordinate (so the nested loop terminates).
C9_StepsIncrease ==
  [][(pc = "inner" /\ args.grid_spacing > 0) =>
       /\ pc' = "inner" => lon' > lon
       /\ pc' = "outer" => lat' > lat]_vars

\* Cell numbers around the wrap of the masked index from 255 to 0.
WrapCells == {-1, 0, 254, 255}

\* The hash of each lattice corner is the same from every cell sharing it.
CornersAgree(p) ==
  \A X, Y \in WrapCells : \A dx, dy \in {0, 1} :
     CornerHash(p, MaskCell(X), MaskCell(Y), dx, dy)
       = CornerHash(p, MaskCell(X + dx), MaskCell(Y + dy), 0, 0)

\* C10: every table index the noise evaluations of a grid cell use lies in
\* 0..511, no evaluation raises IndexError, and the hash of a lattice corner is
\* the same from every cell that shares it, also across the wrap of the masked
\* index from 255 to 0.
C10_IndexSafety ==
  /\ pc # "IndexError"
  /\ (pc = "inner" /\ InBounds(lon, args.lon_max)) =>
        CellIndices(perlin_large, perlin_medium, perlin_small, lat, lon)
          \subseteq 0..(2 * TableSize - 1)
  /\ calls > 0 =>
        CornersAgree(perlin_large) /\ CornersAgree(perlin_medium) /\ CornersAgree(perlin_small)

\* A cell about to be evaluated in the last masked column (xi = 255), whose
\* right-hand corners are read at table index 256.
C10_Witness ==
  /\ pc = "inner" /\ InBounds(lon, args.lon_max)
  /\ CellIndex(LargeCoord(lon)) = 255
  /\ 256 \in CellIndices(perlin_large, perlin_medium, perlin_small, lat, lon)

=============================================================================
